---- MODULE Spec2Model ----
(***************************************************************************)
(* dlldepends (src/src/main.rs): which projects of a solution reference a  *)
(* named component, and through which kind of reference.                   *)
(*                                                                         *)
(* Text is modelled as a sequence of tokens (a token is a chunk of         *)
(* characters; ".", "/", ",", " " and the double quote are tokens of their *)
(* own, so suffix, path, split and trim operations are computed on the     *)
(* tokens, and two texts are equal exactly when their token sequences      *)
(* are).  "/" stands for the platform's path separator.                    *)
(*                                                                         *)
(* A project document is the sequence of markup items of its text: start   *)
(* and self-closing elements with their attributes, other items (end tags, *)
(* text), and malformed items.  quick_xml's Reader yields the items in     *)
(* order; at a malformed item it yields Err and is exhausted (every later  *)
(* read yields Eof), so the items that follow in the text are never        *)
(* yielded.  Attribute values are the raw text between the quotes.         *)
(*                                                                         *)
(* SpecClassify applies check_dependency to a drawn document and name,     *)
(* SpecScan runs check_dependency one read_event_into at a time, SpecEnum  *)
(* applies get_project_paths to a drawn manifest, SpecMain runs main over  *)
(* a drawn command line and file system.                                   *)
(***************************************************************************)
EXTENDS Naturals, Sequences, FiniteSets

VARIABLES
    pc,             \* position of the run
    xml,            \* check_dependency: the project document
    dll_name,       \* check_dependency / main: the target name as passed
    result,         \* check_dependency: the ReferenceType returned
    ns,             \* check_dependency: namespace sniffed (unused by the code)
    sdk,            \* check_dependency: sdk sniffed (unused by the code)
    pos,            \* stepwise scan: index of the next event the Reader yields
    pass,           \* stepwise scan: index in ReferenceTypes of the running pass
    solution_path,  \* get_project_paths / main: path of the solution manifest
    sln_files,      \* file system: path -> solution manifest (its lines)
    project_paths,  \* get_project_paths: the paths returned
    user_args,      \* main: the arguments the user gave (env::args without the program)
    proj_files,     \* file system: path -> project document
    output,         \* main: the usage and summary lines printed so far
    found_projects, \* main: the ReferenceInfo records collected so far
    idx             \* main: number of project paths the filter_map has consumed

scanVars == <<xml, result, ns, sdk, pos, pass>>
enumVars == <<solution_path, sln_files, project_paths>>
mainVars == <<user_args, proj_files, output, found_projects, idx>>
vars == <<pc, xml, dll_name, result, ns, sdk, pos, pass,
          solution_path, sln_files, project_paths,
          user_args, proj_files, output, found_projects, idx>>

----------------------------------------------------------------------------
(* Bounds of the model *)

MaxDocLen == 2          \* events of a document drawn from ClassifyEvents
MaxPriorityLen == 3     \* events of a document drawn from PriorityEvents
MaxSuffixes == 2        \* ".dll" suffixes appended to a base name
MaxScanLen == 3         \* events of a document scanned step by step
MaxLines == 2           \* lines of a solution manifest
MaxUserArgs == 3        \* arguments given on the command line
MaxProjects == 2        \* lines of the solution manifest of a whole run

----------------------------------------------------------------------------
(* Text *)

\* str::to_lowercase on one token
Lower(tok) ==
    CASE tok = "Grpc" -> "grpc"
      [] tok = "DLL" -> "dll"
      [] tok = "Tools" -> "tools"
      [] tok = "Include" -> "include"
      [] tok = "INCLUDE" -> "include"
      [] tok = "Sdk" -> "sdk"
      [] tok = "XMLNS" -> "xmlns"
      [] tok = "Reference" -> "reference"
      [] tok = "REFERENCE" -> "reference"
      [] tok = "PackageReference" -> "packagereference"
      [] tok = "ProjectReference" -> "projectreference"
      [] OTHER -> tok

to_lowercase(s) == [i \in DOMAIN s |-> Lower(s[i])]

ends_with(s, suffix) ==
    /\ Len(s) >= Len(suffix)
    /\ SubSeq(s, Len(s) - Len(suffix) + 1, Len(s)) = suffix

\* index of the last occurrence of tok in s, 0 if none
LastIndexOf(s, tok) ==
    IF \E i \in DOMAIN s : s[i] = tok
    THEN CHOOSE i \in DOMAIN s : s[i] = tok /\ \A j \in DOMAIN s : s[j] = tok => j <= i
    ELSE 0

\* Path::file_name of a path that does not end in a separator or in ".."
file_name(path) == SubSeq(path, LastIndexOf(path, "/") + 1, Len(path))

\* Path::file_stem: the file name up to its last ".", the whole file name when
\* it has no "." or only a leading one
file_stem(path) ==
    LET file == file_name(path)
        dot == LastIndexOf(file, ".")
    IN  IF dot <= 1 THEN file ELSE SubSeq(file, 1, dot - 1)

DllSuffix == <<".", "dll">>

\* the suffix test without to_lowercase
StripDllExactCase(name) ==
    IF ends_with(name, DllSuffix) THEN file_stem(name) ELSE name

\* the target name check_dependency compares against
StripDll(name) ==
    IF ends_with(to_lowercase(name), DllSuffix) THEN file_stem(name) ELSE name

----------------------------------------------------------------------------
(* ReferenceType and the scan of a document *)

\* the reference types tried in another order
ReferenceTypesReordered == <<"ProjectReference", "PackageReference", "Reference">>

ReferenceTypes == <<"Reference", "PackageReference", "ProjectReference">>

\* Event::Start alone, Event::Empty left out
IsStartElement(ev) == ev.kind = "Start"

IsElement(ev) == ev.kind \in {"Start", "Empty"}

\* the element name compared ignoring case
ElementMatchesAnyCaseTag(element, expected_element_name, name) ==
    /\ Lower(element.name) = Lower(expected_element_name)
    /\ \E j \in DOMAIN element.attrs :
          /\ element.attrs[j].ok
          /\ Lower(element.attrs[j].key) = "include"
          /\ element.attrs[j].value = name

\* one Start/Empty event of has_reference: the element name is the expected
\* one and a well-formed attribute keyed "include" (any case) has the value
ElementMatches(element, expected_element_name, name) ==
    /\ element.name = expected_element_name
    /\ \E j \in DOMAIN element.attrs :
          /\ element.attrs[j].ok
          /\ Lower(element.attrs[j].key) = "include"
          /\ element.attrs[j].value = name

RECURSIVE HasReferenceFrom(_, _, _, _)
HasReferenceFrom(doc, reference_type, name, i) ==
    IF i > Len(doc) THEN FALSE                       \* Event::Eof
    ELSE IF doc[i].kind = "Err" THEN FALSE           \* Err(e): break
    ELSE IF IsElement(doc[i]) /\ ElementMatches(doc[i], reference_type, name)
         THEN TRUE
    ELSE HasReferenceFrom(doc, reference_type, name, i + 1)

has_reference(doc, reference_type, name) ==
    HasReferenceFrom(doc, reference_type, name, 1)

\* the attribute that ends the namespace/SDK sniffing at a Start event, if any
SniffHit(ev) ==
    /\ ev.kind = "Start"
    /\ \E j \in DOMAIN ev.attrs :
          ev.attrs[j].ok /\ Lower(ev.attrs[j].key) \in {"xmlns", "sdk"}

FirstSniffAttr(ev) ==
    ev.attrs[CHOOSE j \in DOMAIN ev.attrs :
                /\ ev.attrs[j].ok /\ Lower(ev.attrs[j].key) \in {"xmlns", "sdk"}
                /\ \A k \in 1..(j - 1) :
                      ~(ev.attrs[k].ok /\ Lower(ev.attrs[k].key) \in {"xmlns", "sdk"})]

\* position at which a Reader stops yielding events: the first Err (after it
\* the Reader is exhausted and yields Eof), or past the end
ReaderEnd(doc) ==
    IF \E i \in DOMAIN doc : doc[i].kind = "Err"
    THEN CHOOSE i \in DOMAIN doc :
            doc[i].kind = "Err" /\ \A j \in 1..(i - 1) : doc[j].kind # "Err"
    ELSE Len(doc) + 1

\* the 'outer loop: [ns, sdk] it leaves behind
Sniff(doc) ==
    LET hits == {i \in 1..(ReaderEnd(doc) - 1) : SniffHit(doc[i])}
    IN  IF hits = {} THEN [ns |-> <<>>, sdk |-> <<>>]
        ELSE LET i == CHOOSE h \in hits : \A g \in hits : h <= g
                 a == FirstSniffAttr(doc[i])
             IN  IF Lower(a.key) = "xmlns"
                 THEN [ns |-> a.value, sdk |-> <<>>]
                 ELSE [ns |-> <<>>, sdk |-> a.value]

RECURSIVE FirstKind(_, _, _)
FirstKind(doc, name, k) ==
    IF k > Len(ReferenceTypes) THEN "None"
    ELSE IF has_reference(doc, ReferenceTypes[k], name) THEN ReferenceTypes[k]
    ELSE FirstKind(doc, name, k + 1)

check_dependency(doc, name) == FirstKind(doc, StripDll(name), 1)

----------------------------------------------------------------------------
(* Inputs of check_dependency *)

\* all sequences over S of length at most n
RECURSIVE SeqsUpTo(_, _)
SeqsUpTo(S, n) ==
    IF n = 0 THEN {<<>>}
    ELSE LET shorter == SeqsUpTo(S, n - 1)
         IN  shorter \cup {Append(s, x) : s \in {t \in shorter : Len(t) = n - 1}, x \in S}

Attr(k, v) == [ok |-> TRUE, key |-> k, value |-> v]
\* an attribute the Reader reports as an error (dropped by filter_map(Result::ok))
BadAttr == [ok |-> FALSE, key |-> "", value |-> <<>>]
Element(kind, name, attrs) == [kind |-> kind, name |-> name, attrs |-> attrs]
EndEvent == [kind |-> "End", name |-> "", attrs |-> <<>>]
ErrEvent == [kind |-> "Err", name |-> "", attrs |-> <<>>]

Grpc == <<"Grpc">>
grpc == <<"grpc">>

ClassifyAttrLists ==
    { <<>>,
      <<Attr("Include", Grpc)>>,
      <<Attr("INCLUDE", Grpc)>>,
      <<Attr("Include", grpc)>>,
      <<Attr("Version", Grpc), Attr("include", Grpc)>>,
      <<BadAttr, Attr("Include", <<"Grpc", ".", "dll">>)>> }

ClassifyTags == {"Reference", "PackageReference", "ProjectReference", "reference"}

ClassifyEvents ==
    {Element(k, n, a) : k \in {"Start", "Empty"}, n \in ClassifyTags, a \in ClassifyAttrLists}
        \cup {EndEvent, ErrEvent}

PriorityEvents ==
    {Element("Empty", n, <<Attr("Include", Grpc)>>) :
        n \in {"Reference", "PackageReference", "ProjectReference"}}
        \cup {Element("Start", "Reference", <<Attr("Include", grpc)>>), ErrEvent}

ClassifyNames == {Grpc, <<"Grpc", ".", "DLL">>}

\* runs of at most n ".dll" suffixes, in either case
RECURSIVE SuffixRuns(_)
SuffixRuns(n) ==
    IF n = 0 THEN {<<>>}
    ELSE LET shorter == SuffixRuns(n - 1)
         IN  shorter \cup {s \o <<".", d>> : s \in shorter, d \in {"dll", "DLL"}}

NameDirs == {<<>>, <<"lib", "/">>}
NameBases == {<<>>, Grpc, <<"Grpc", ".", "Tools">>}
Names == {d \o b \o s : d \in NameDirs, b \in NameBases, s \in SuffixRuns(MaxSuffixes)}

SuffixValues == {b \o s : b \in NameBases, s \in SuffixRuns(1)}
SuffixDocs == {<<Element("Empty", "PackageReference", <<Attr("Include", v)>>)>> : v \in SuffixValues}

----------------------------------------------------------------------------
(* check_dependency applied to a drawn document and name *)

\* main is not running
NoRun ==
    /\ user_args = <<>>
    /\ proj_files = <<>>
    /\ output = <<>>
    /\ found_projects = <<>>
    /\ idx = 0

\* no solution is involved
NoSolution ==
    /\ solution_path = <<>>
    /\ sln_files = <<>>
    /\ project_paths = <<>>
    /\ NoRun

InitClassify ==
    /\ pc = "start"
    /\ \/ /\ xml \in SeqsUpTo(ClassifyEvents, MaxDocLen) \cup SeqsUpTo(PriorityEvents, MaxPriorityLen)
          /\ dll_name \in ClassifyNames
       \/ /\ xml \in SuffixDocs
          /\ dll_name \in Names
    /\ result = "unset"
    /\ ns = <<>>
    /\ sdk = <<>>
    /\ pos = 0
    /\ pass = 0
    /\ NoSolution

Classify ==
    /\ pc = "start"
    /\ result' = check_dependency(xml, dll_name)
    /\ ns' = Sniff(xml).ns
    /\ sdk' = Sniff(xml).sdk
    /\ pc' = "done"
    /\ UNCHANGED <<xml, dll_name, pos, pass>>
    /\ UNCHANGED <<enumVars, mainVars>>

NextClassify == Classify

SpecClassify == InitClassify /\ [][NextClassify]_vars

----------------------------------------------------------------------------
(* Properties of check_dependency and has_reference (SpecClassify) *)

Kinds == {"Reference", "PackageReference", "ProjectReference"}

\* the fixed order Reference > PackageReference > ProjectReference
Rank(kind) ==
    CASE kind = "Reference" -> 1
      [] kind = "PackageReference" -> 2
      [] kind = "ProjectReference" -> 3

HighestPriority(S) == CHOOSE k \in S : \A j \in S : Rank(k) <= Rank(j)

\* keys that equal "include" ignoring case
IncludeKeys == {"include", "Include", "INCLUDE"}

\* event i of doc is a start or self-closing element tagged kind that carries
\* an include attribute whose value is name
MatchingElementAt(doc, i, kind, name) ==
    /\ doc[i].kind \in {"Start", "Empty"}
    /\ doc[i].name = kind
    /\ \E j \in DOMAIN doc[i].attrs :
          /\ doc[i].attrs[j].ok
          /\ doc[i].attrs[j].key \in IncludeKeys
          /\ doc[i].attrs[j].value = name

\* the kinds with a matching element among the first n events of doc
KindsMatched(doc, n, name) ==
    {k \in Kinds : \E i \in 1..n : MatchingElementAt(doc, i, k, name)}

\* the matching elements (of any kind) among the first n events of doc
MatchingElements(doc, n, name) ==
    {i \in 1..n : \E k \in Kinds : MatchingElementAt(doc, i, k, name)}

\* number of events before the first malformed one
WellFormedPrefix(doc) ==
    Cardinality({i \in DOMAIN doc : \A j \in 1..i : doc[j].kind # "Err"})

TargetName == StripDll(dll_name)

\* C1 as stated: the result is the highest-priority kind among the kinds that
\* have a matching element anywhere in the document
C1_PriorityWholeDocument ==
    (pc = "done" /\ KindsMatched(xml, Len(xml), TargetName) # {})
        => result = HighestPriority(KindsMatched(xml, Len(xml), TargetName))

\* C1 (amended): the result is the highest-priority kind, in the order
\* Reference > PackageReference > ProjectReference, among the kinds that have
\* a matching element before the first malformed event of the document,
\* whatever the order of the elements
C1_Priority ==
    (pc = "done" /\ KindsMatched(xml, WellFormedPrefix(xml), TargetName) # {})
        => result = HighestPriority(KindsMatched(xml, WellFormedPrefix(xml), TargetName))

\* all three kinds match, the Reference element comes last, Reference is returned
C1_Witness ==
    /\ pc = "done"
    /\ Len(xml) = 3
    /\ MatchingElementAt(xml, 1, "ProjectReference", TargetName)
    /\ MatchingElementAt(xml, 2, "PackageReference", TargetName)
    /\ MatchingElementAt(xml, 3, "Reference", TargetName)
    /\ result = "Reference"

\* C2 as stated: None exactly when the document holds no matching element;
\* a document with exactly one matching element gets that element's kind
C2_NoneIffNoMatchWholeDocument ==
    pc = "done" =>
        /\ result = "None" <=> MatchingElements(xml, Len(xml), TargetName) = {}
        /\ \A i \in DOMAIN xml :
              MatchingElements(xml, Len(xml), TargetName) = {i}
                  => MatchingElementAt(xml, i, result, TargetName)

\* C2 (amended): None exactly when no start or self-closing element before the
\* first malformed event is tagged Reference, PackageReference or
\* ProjectReference and carries an include attribute equal to the
\* suffix-stripped target; with exactly one such element the result is its kind
C2_NoneIffNoMatch ==
    pc = "done" =>
        /\ result = "None" <=> MatchingElements(xml, WellFormedPrefix(xml), TargetName) = {}
        /\ \A i \in DOMAIN xml :
              MatchingElements(xml, WellFormedPrefix(xml), TargetName) = {i}
                  => MatchingElementAt(xml, i, result, TargetName)

\* one matching element, self-closing, after a non-matching one: its kind
C2_Witness ==
    /\ pc = "done"
    /\ Len(xml) = 2
    /\ MatchingElements(xml, WellFormedPrefix(xml), TargetName) = {2}
    /\ xml[2].kind = "Empty"
    /\ dll_name # TargetName
    /\ result = "ProjectReference"

\* dll_name without its last two tokens
WithoutSuffix(name) == SubSeq(name, 1, Len(name) - 2)

HasDllSuffix(name) == ends_with(to_lowercase(name), DllSuffix)

\* C4 as stated: for every N without directory components, N + ".dll" (any
\* case) is classified as N is
C4_SuffixAnyName ==
    (pc = "done" /\ HasDllSuffix(dll_name) /\ LastIndexOf(WithoutSuffix(dll_name), "/") = 0)
        => result = check_dependency(xml, WithoutSuffix(dll_name))

\* C4 (amended): for every non-empty N without directory components that does
\* not itself end in ".dll" (any case), N + ".dll" (any case) is classified
\* as N is
C4_Suffix ==
    (/\ pc = "done"
     /\ HasDllSuffix(dll_name)
     /\ LastIndexOf(WithoutSuffix(dll_name), "/") = 0
     /\ WithoutSuffix(dll_name) # <<>>
     /\ ~HasDllSuffix(WithoutSuffix(dll_name)))
        => result = check_dependency(xml, WithoutSuffix(dll_name))

\* "Grpc.Tools.DLL" against a document that includes "Grpc.Tools"
C4_Witness ==
    /\ pc = "done"
    /\ dll_name = <<"Grpc", ".", "Tools", ".", "DLL">>
    /\ xml[1].attrs[1].value = <<"Grpc", ".", "Tools">>
    /\ result = "PackageReference"

\* tokens and values that differ from the given one in case only
CaseVariants(tok) ==
    {t \in ClassifyTags \cup IncludeKeys \cup {"REFERENCE"} : t # tok /\ Lower(t) = Lower(tok)}

ValueCaseVariants(v) == {w \in {Grpc, grpc} : w # v /\ to_lowercase(w) = to_lowercase(v)}

WithTag(e, tag) == [e EXCEPT !.name = tag]
WithIncludeKey(e, key) ==
    [e EXCEPT !.attrs = [j \in DOMAIN e.attrs |->
        IF e.attrs[j].ok /\ e.attrs[j].key \in IncludeKeys
        THEN [e.attrs[j] EXCEPT !.key = key] ELSE e.attrs[j]]]
WithValue(e, old, new) ==
    [e EXCEPT !.attrs = [j \in DOMAIN e.attrs |->
        IF e.attrs[j].ok /\ e.attrs[j].value = old
        THEN [e.attrs[j] EXCEPT !.value = new] ELSE e.attrs[j]]]

\* C5: for every element that has_reference matches, the same element with only
\* the case of its tag changed, or only the case of the matched value changed,
\* is not matched, and with only the case of its include key changed it still is
C5_CaseSensitivity ==
    pc = "done" =>
        \A i \in DOMAIN xml : \A rt \in Kinds :
            has_reference(<<xml[i]>>, rt, TargetName) =>
                /\ \A tag \in CaseVariants(xml[i].name) :
                      ~has_reference(<<WithTag(xml[i], tag)>>, rt, TargetName)
                /\ \A v \in ValueCaseVariants(TargetName) :
                      ~has_reference(<<WithValue(xml[i], TargetName, v)>>, rt, TargetName)
                /\ \A key \in IncludeKeys :
                      has_reference(<<WithIncludeKey(xml[i], key)>>, rt, TargetName)

\* an element matched through the key "INCLUDE" decides the result
C5_Witness ==
    /\ pc = "done"
    /\ Len(xml) = 1
    /\ xml[1].attrs = <<Attr("INCLUDE", Grpc)>>
    /\ xml[1].name = "Reference"
    /\ CaseVariants(xml[1].name) = {"reference", "REFERENCE"}
    /\ ValueCaseVariants(TargetName) = {grpc}
    /\ result = "Reference"

----------------------------------------------------------------------------
(* check_dependency step by step: one action per read_event_into *)

ScanEvents ==
    { Element("Start", "Project", <<>>),
      Element("Start", "Project", <<Attr("xmlns", <<"ms">>)>>),
      Element("Start", "Project", <<Attr("Sdk", <<"net">>)>>),
      Element("Empty", "Import", <<Attr("Sdk", <<"net">>)>>),
      Element("Empty", "Reference", <<Attr("Include", Grpc)>>),
      Element("Start", "ProjectReference", <<Attr("Include", Grpc)>>),
      EndEvent,
      ErrEvent }

InitScan ==
    /\ pc = "sniff"
    /\ xml \in SeqsUpTo(ScanEvents, MaxScanLen)
    /\ dll_name \in {<<"Grpc", ".", "dll">>}
    /\ result = "unset"
    /\ ns = <<>>
    /\ sdk = <<>>
    /\ pos = 1
    /\ pass = 0
    /\ NoSolution

\* the Reader has nothing more to yield: read_event_into returns Event::Eof
AtEof == pos > Len(xml)

\* position of the Reader after it yielded xml[pos]: after an Err it is
\* exhausted and yields Eof from then on
Advance == IF xml[pos].kind = "Err" THEN Len(xml) + 1 ELSE pos + 1

\* a fresh Reader over the document, for has_reference(xml, ReferenceTypes[k], ..)
StartPass(k) ==
    /\ pc' = "scan"
    /\ pass' = k
    /\ pos' = 1

\* the 'outer loop without its Eof arm: it reads Eof for ever
SniffEofNeverBreaks ==
    /\ pc = "sniff"
    /\ AtEof
    /\ UNCHANGED vars

\* 'outer loop, Ok(Event::Eof) => break 'outer
SniffEof ==
    /\ pc = "sniff"
    /\ AtEof
    /\ StartPass(1)
    /\ UNCHANGED <<xml, dll_name, result, ns, sdk>>
    /\ UNCHANGED <<enumVars, mainVars>>

\* 'outer loop, a Start event with an xmlns or sdk attribute: break 'outer
SniffFound ==
    /\ pc = "sniff"
    /\ ~AtEof
    /\ SniffHit(xml[pos])
    /\ LET a == FirstSniffAttr(xml[pos])
       IN  /\ ns' = IF Lower(a.key) = "xmlns" THEN a.value ELSE ns
           /\ sdk' = IF Lower(a.key) = "sdk" THEN a.value ELSE sdk
    /\ StartPass(1)
    /\ UNCHANGED <<xml, dll_name, result>>
    /\ UNCHANGED <<enumVars, mainVars>>

\* 'outer loop, any other event (an Err included): next iteration
SniffSkip ==
    /\ pc = "sniff"
    /\ ~AtEof
    /\ ~SniffHit(xml[pos])
    /\ pos' = Advance
    /\ UNCHANGED <<pc, xml, dll_name, result, ns, sdk, pass>>
    /\ UNCHANGED <<enumVars, mainVars>>

\* has_reference returned false: the next reference type, or ReferenceType::None
PassFailed ==
    IF pass < Len(ReferenceTypes)
    THEN StartPass(pass + 1) /\ UNCHANGED result
    ELSE pc' = "done" /\ result' = "None" /\ UNCHANGED <<pos, pass>>

\* has_reference loop, Ok(Event::Eof) => break
ScanEof ==
    /\ pc = "scan"
    /\ AtEof
    /\ PassFailed
    /\ UNCHANGED <<xml, dll_name, ns, sdk>>
    /\ UNCHANGED <<enumVars, mainVars>>

\* has_reference loop, Err(e) => break
ScanErr ==
    /\ pc = "scan"
    /\ ~AtEof
    /\ xml[pos].kind = "Err"
    /\ PassFailed
    /\ UNCHANGED <<xml, dll_name, ns, sdk>>
    /\ UNCHANGED <<enumVars, mainVars>>

\* has_reference loop, a matching element: return true, check_dependency returns rt
ScanMatch ==
    /\ pc = "scan"
    /\ ~AtEof
    /\ IsElement(xml[pos])
    /\ ElementMatches(xml[pos], ReferenceTypes[pass], StripDll(dll_name))
    /\ pc' = "done"
    /\ result' = ReferenceTypes[pass]
    /\ UNCHANGED <<xml, dll_name, ns, sdk, pos, pass>>
    /\ UNCHANGED <<enumVars, mainVars>>

\* has_reference loop, any other event: next iteration
ScanSkip ==
    /\ pc = "scan"
    /\ ~AtEof
    /\ xml[pos].kind # "Err"
    /\ ~(IsElement(xml[pos]) /\ ElementMatches(xml[pos], ReferenceTypes[pass], StripDll(dll_name)))
    /\ pos' = Advance
    /\ UNCHANGED <<pc, xml, dll_name, result, ns, sdk, pass>>
    /\ UNCHANGED <<enumVars, mainVars>>

NextScan ==
    \/ SniffEof
    \/ SniffFound
    \/ SniffSkip
    \/ ScanEof
    \/ ScanErr
    \/ ScanMatch
    \/ ScanSkip

\* the program is sequential and never waits: a step that can be taken is taken
SpecScan == InitScan /\ [][NextScan]_vars /\ WF_vars(NextScan)

\* the stepwise scan returns what check_dependency and Sniff compute
ScanAgrees ==
    pc = "done" =>
        /\ result = check_dependency(xml, dll_name)
        /\ ns = Sniff(xml).ns
        /\ sdk = Sniff(xml).sdk

----------------------------------------------------------------------------
(* Termination of the scans (SpecScan) *)

\* the event carries a well-formed attribute keyed xmlns or sdk (any case)
CarriesNamespaceOrSdk(ev) ==
    \E j \in DOMAIN ev.attrs :
        ev.attrs[j].ok /\ Lower(ev.attrs[j].key) \in {"xmlns", "sdk"}

\* event i is the first element of the given kinds that carries xmlns or sdk
FirstCarrier(i, kinds) ==
    /\ i \in DOMAIN xml
    /\ xml[i].kind \in kinds
    /\ CarriesNamespaceOrSdk(xml[i])
    /\ \A j \in 1..(i - 1) : ~(xml[j].kind \in kinds /\ CarriesNamespaceOrSdk(xml[j]))

\* a scan that reads a malformed event reads no event after it
ErrEndsScan ==
    (pc \in {"sniff", "scan"} /\ ~AtEof /\ xml[pos].kind = "Err")
        => (pc' # pc \/ pass' # pass \/ pos' > Len(xml))

Returns == pc = "done" /\ result \in Kinds \cup {"None"}

\* C9 as stated: the sniffing loop stops at the first xmlns or sdk attribute
\* (of any element) or at end-of-document, an Err ends every scan, and
\* check_dependency eventually returns a ReferenceType
C9_ScansEndAtFirstAttribute ==
    /\ [][(pc = "sniff" /\ pc' # "sniff") => (AtEof \/ FirstCarrier(pos, {"Start", "Empty"}))]_vars
    /\ [][ErrEndsScan]_vars
    /\ <>Returns

\* C9 (amended): the sniffing loop stops at the first xmlns or sdk attribute
\* of a start (not self-closing) element or at end-of-document, a malformed
\* event ends every scan, and check_dependency eventually returns a
\* ReferenceType for every document, malformed ones included
C9_ScansEnd ==
    /\ [][(pc = "sniff" /\ pc' # "sniff") => (AtEof \/ FirstCarrier(pos, {"Start"}))]_vars
    /\ [][ErrEndsScan]_vars
    /\ <>Returns

\* a document that is malformed from its second event on has been classified
C9_Witness ==
    /\ pc = "done"
    /\ Len(xml) = 3
    /\ xml[1].kind = "Start"
    /\ xml[2].kind = "Err"
    /\ ElementMatches(xml[3], "Reference", StripDll(dll_name))
    /\ result = "None"

----------------------------------------------------------------------------
(* get_project_paths *)

starts_with(s, prefix) ==
    /\ Len(s) >= Len(prefix)
    /\ SubSeq(s, 1, Len(prefix)) = prefix

\* str::split(','): the fields between the commas, at least one
RECURSIVE split(_, _)
split(s, sep) ==
    IF \E i \in DOMAIN s : s[i] = sep
    THEN LET i == CHOOSE k \in DOMAIN s : s[k] = sep /\ \A j \in 1..(k - 1) : s[j] # sep
         IN  <<SubSeq(s, 1, i - 1)>> \o split(SubSeq(s, i + 1, Len(s)), sep)
    ELSE <<s>>

\* str::trim_matches: every leading and trailing tok removed
RECURSIVE trim_matches(_, _)
trim_matches(s, tok) ==
    IF s # <<>> /\ s[1] = tok THEN trim_matches(Tail(s), tok)
    ELSE IF s # <<>> /\ s[Len(s)] = tok THEN trim_matches(SubSeq(s, 1, Len(s) - 1), tok)
    ELSE s

\* str::trim, the whitespace being the token " "
trim(s) == trim_matches(s, " ")

\* Path::parent of a path without "." or ".." components or repeated separators
parent(path) ==
    IF path = <<>> \/ path = <<"/">> THEN [some |-> FALSE, path |-> <<>>]
    ELSE LET k == LastIndexOf(path, "/")
         IN  [some |-> TRUE,
              path |-> IF k = 0 THEN <<>>
                       ELSE IF k = 1 THEN <<"/">>
                       ELSE SubSeq(path, 1, k - 1)]

\* Path::join: an absolute path replaces the directory
join(dir, rel) ==
    IF rel # <<>> /\ rel[1] = "/" THEN rel
    ELSE IF dir = <<>> THEN rel
    ELSE IF dir[Len(dir)] = "/" THEN dir \o rel
    ELSE dir \o <<"/">> \o rel

\* the filter applied to the trimmed line
IsProjectLineTrimmed(line) == starts_with(trim(line), <<"Project(">>)

\* the filter of get_project_paths
IsProjectLine(line) == starts_with(line, <<"Project(">>)

\* the map of get_project_paths on a retained line: parts[1] exists
HasSecondField(line) == Len(split(line, ",")) >= 2

PathOfLine(solution_dir, line) ==
    join(solution_dir, trim_matches(trim(split(line, ",")[2]), "\""))

\* the manifest at a path: fs::read_to_string
ReadSolution(files, path) ==
    IF path \in DOMAIN files THEN files[path] ELSE [ok |-> FALSE, lines |-> <<>>]

RECURSIVE MapLines(_, _)
MapLines(solution_dir, lines) ==
    IF lines = <<>> THEN <<>>
    ELSE IF IsProjectLine(Head(lines))
         THEN <<PathOfLine(solution_dir, Head(lines))>> \o MapLines(solution_dir, Tail(lines))
    ELSE MapLines(solution_dir, Tail(lines))

\* get_project_paths: the paths, or the panic that ends the program
get_project_paths(files, path) ==
    LET file == ReadSolution(files, path) IN
    IF ~parent(path).some THEN [panic |-> "parent", paths |-> <<>>]
    ELSE IF ~file.ok THEN [panic |-> "read", paths |-> <<>>]
    ELSE IF \E i \in DOMAIN file.lines :
                IsProjectLine(file.lines[i]) /\ ~HasSecondField(file.lines[i])
         THEN [panic |-> "index", paths |-> <<>>]
    ELSE [panic |-> "none", paths |-> MapLines(parent(path).path, file.lines)]

----------------------------------------------------------------------------
(* get_project_paths applied to a drawn manifest *)

FieldLists ==
    { <<>>,
      << <<" ", "\"", "App", "/", "App", ".", "csproj", "\"">>, <<" ", "\"", "guid", "\"">> >>,
      << <<"\"", "\"", "Lib", ".", "csproj", "\"", " ">> >>,
      << <<" ", "/", "abs", "/", "Lib", ".", "csproj">>, <<>> >> }

RECURSIVE JoinFields(_)
JoinFields(fields) ==
    IF fields = <<>> THEN <<>> ELSE <<",">> \o Head(fields) \o JoinFields(Tail(fields))

ManifestLines ==
    {indent \o head \o JoinFields(fields) :
        indent \in {<<>>, <<" ">>},
        head \in {<<"Project(", "=", "\"", "App", "\"">>, <<"EndProject">>},
        fields \in FieldLists}

SolutionPaths ==
    { <<"sln", "/", "App", ".", "sln">>, <<"App", ".", "sln">>, <<"/">> }

TextFile(lines) == [ok |-> TRUE, lines |-> lines]
Unreadable == [ok |-> FALSE, lines |-> <<>>]

InitEnum ==
    /\ pc = "start"
    /\ solution_path \in SolutionPaths
    /\ \E file \in {TextFile(m) : m \in SeqsUpTo(ManifestLines, MaxLines)} \cup {Unreadable} :
          sln_files = [p \in {solution_path} |-> file]
    /\ project_paths = <<>>
    /\ xml = <<>>
    /\ dll_name = <<>>
    /\ result = "unset"
    /\ ns = <<>>
    /\ sdk = <<>>
    /\ pos = 0
    /\ pass = 0
    /\ NoRun

\* get_project_paths returns
EnumerateReturns ==
    /\ pc = "start"
    /\ get_project_paths(sln_files, solution_path).panic = "none"
    /\ project_paths' = get_project_paths(sln_files, solution_path).paths
    /\ pc' = "done"
    /\ UNCHANGED <<dll_name, solution_path, sln_files>>
    /\ UNCHANGED <<scanVars, mainVars>>

\* get_project_paths panics: unwrap, expect or parts[1]
EnumeratePanics ==
    /\ pc = "start"
    /\ get_project_paths(sln_files, solution_path).panic # "none"
    /\ pc' = "panicked"
    /\ UNCHANGED <<dll_name, solution_path, sln_files, project_paths>>
    /\ UNCHANGED <<scanVars, mainVars>>

NextEnum == EnumerateReturns \/ EnumeratePanics

SpecEnum == InitEnum /\ [][NextEnum]_vars

----------------------------------------------------------------------------
(* Properties of get_project_paths (SpecEnum) *)

Manifest == ReadSolution(sln_files, solution_path)

CommasOf(line) == {i \in DOMAIN line : line[i] = ","}

\* the tokens between the first comma of the line and the next one (or the
\* end of the line); empty when the line has no comma
SecondField(line) ==
    IF CommasOf(line) = {} THEN <<>>
    ELSE LET c1 == CHOOSE i \in CommasOf(line) : \A j \in CommasOf(line) : i <= j
             rest == {i \in CommasOf(line) : i > c1}
             c2 == IF rest = {} THEN Len(line) + 1
                   ELSE CHOOSE i \in rest : \A j \in rest : i <= j
         IN  SubSeq(line, c1 + 1, c2 - 1)

\* the path a project line stands for
ClaimedPath(line) ==
    join(parent(solution_path).path, trim_matches(trim(SecondField(line)), "\""))

\* the k-th smallest member of a set of line numbers
KthOf(R, k) == CHOOSE i \in R : Cardinality({j \in R : j <= i}) = k

\* one path per line numbered in R, in manifest order
PathsOfLines(R) ==
    [k \in 1..Cardinality(R) |-> ClaimedPath(Manifest.lines[KthOf(R, k)])]

LinesTrimmedStartingWithProject ==
    {i \in DOMAIN Manifest.lines : starts_with(trim(Manifest.lines[i]), <<"Project(">>)}

LinesStartingWithProject ==
    {i \in DOMAIN Manifest.lines :
        Manifest.lines[i] # <<>> /\ Manifest.lines[i][1] = "Project("}

\* C6 as stated: one path, in manifest order, for each line whose trimmed
\* content starts with "Project(", and nothing for any other line
C6_PathsOfTrimmedProjectLines ==
    pc = "done" => project_paths = PathsOfLines(LinesTrimmedStartingWithProject)

\* C6 (amended): get_project_paths returns, in manifest order, exactly one
\* path for each line that itself starts with "Project(" (a project line
\* preceded by whitespace contributes nothing, like every other line), the
\* path being the second comma-separated field, trimmed, unquoted and joined
\* onto the manifest's parent directory; it panics instead of returning
\* exactly when such a line has no comma
C6_PathsOfProjectLines ==
    /\ pc = "done" => project_paths = PathsOfLines(LinesStartingWithProject)
    /\ (pc # "start" /\ Manifest.ok /\ parent(solution_path).some)
          => (pc = "panicked" <=>
                \E i \in LinesStartingWithProject : CommasOf(Manifest.lines[i]) = {})

\* an indented project line is skipped and the quoted path of the next is kept
C6_Witness ==
    /\ pc = "done"
    /\ Len(Manifest.lines) = 2
    /\ LinesTrimmedStartingWithProject = {1, 2}
    /\ LinesStartingWithProject = {2}
    /\ project_paths = << <<"sln", "/", "App", "/", "App", ".", "csproj">> >>

\* C10: get_project_paths does not fail on a readable manifest, also when a
\* line starting with "Project(" has no comma
C10_EnumerationNeverFails ==
    (Manifest.ok /\ parent(solution_path).some) => pc # "panicked"

----------------------------------------------------------------------------
(* main *)

\* r#"d:\Development\Projects\StreamInfoHub\StreamInfoHub.sln"#, its leading
\* directories as one token and "/" standing for the path separator
DEFAULT_SLN_PATH == <<"StreamInfoHub", "/", "StreamInfoHub", ".", "sln">>
DEFAULT_DLL_NAME == <<"Grpc", ".", "Tools">>

\* env::args().collect() followed by the two pushes
Args(given) == << <<"dlldepends">> >> \o given \o <<DEFAULT_SLN_PATH, DEFAULT_DLL_NAME>>

UsageLine == [line |-> "usage", count |-> 0]
NoDependenciesLine == [line |-> "no dependencies", count |-> 0]
ReferencesLine(n) == [line |-> "references", count |-> n]

\* the project document at a path: fs::read_to_string
ReadProject(files, path) ==
    IF path \in DOMAIN files THEN files[path] ELSE [ok |-> FALSE, doc |-> <<>>]

SlnArg == <<"sln", "/", "App", ".", "sln">>
DllArg == <<"Grpc", ".", "Tools", ".", "dll">>

RelPaths == { <<"A", ".", "csproj">>, <<"B", ".", "csproj">> }

ProjectLine(rel) ==
    <<"Project(", "=", "\"", "P", "\"", ",", " ", "\"">> \o rel \o <<"\"", ",", " ", "\"", "guid", "\"">>

MainLines == {ProjectLine(rel) : rel \in RelPaths} \cup { <<"EndProject">> }

ProjectDoc(doc) == [ok |-> TRUE, doc |-> doc]
UnreadableProject == [ok |-> FALSE, doc |-> <<>>]

ProjectContents ==
    { UnreadableProject,
      ProjectDoc(<<Element("Start", "Project", <<Attr("Sdk", <<"net">>)>>)>>),
      ProjectDoc(<<Element("Start", "Project", <<>>),
                   Element("Empty", "PackageReference", <<Attr("Include", DEFAULT_DLL_NAME)>>)>>) }

SolutionDirs == {parent(SlnArg).path, parent(DEFAULT_SLN_PATH).path}

InitMain ==
    /\ pc = "start"
    /\ user_args \in SeqsUpTo({SlnArg, DllArg}, MaxUserArgs)
    /\ \E m \in SeqsUpTo(MainLines, MaxProjects) :
          sln_files = [p \in {SlnArg, DEFAULT_SLN_PATH} |-> TextFile(m)]
    /\ \E c \in [RelPaths -> ProjectContents] :
          proj_files = [p \in {join(d, r) : d \in SolutionDirs, r \in RelPaths} |->
                            c[CHOOSE r \in RelPaths : ends_with(p, r)]]
    /\ solution_path = <<>>
    /\ dll_name = <<>>
    /\ project_paths = <<>>
    /\ output = <<>>
    /\ found_projects = <<>>
    /\ idx = 0
    /\ xml = <<>>
    /\ result = "unset"
    /\ ns = <<>>
    /\ sdk = <<>>
    /\ pos = 0
    /\ pass = 0

\* main up to the call of get_project_paths: the usage line is printed when
\* args.len() != 3, and the run goes on with args[1] and args[2] either way
MainArgs ==
    /\ pc = "start"
    /\ output' = IF Len(Args(user_args)) # 3 THEN <<UsageLine>> ELSE <<>>
    /\ solution_path' = Args(user_args)[2]
    /\ dll_name' = Args(user_args)[3]
    /\ pc' = "enumerate"
    /\ UNCHANGED <<sln_files, project_paths, user_args, proj_files, found_projects, idx>>
    /\ UNCHANGED scanVars

\* get_project_paths(&solution_path) returns
MainEnumerate ==
    /\ pc = "enumerate"
    /\ get_project_paths(sln_files, solution_path).panic = "none"
    /\ project_paths' = get_project_paths(sln_files, solution_path).paths
    /\ pc' = "classify"
    /\ UNCHANGED <<dll_name, solution_path, sln_files>>
    /\ UNCHANGED <<scanVars, mainVars>>

\* get_project_paths(&solution_path) panics
MainEnumeratePanics ==
    /\ pc = "enumerate"
    /\ get_project_paths(sln_files, solution_path).panic # "none"
    /\ pc' = "panicked"
    /\ UNCHANGED <<dll_name, enumVars, scanVars, mainVars>>

NextProject == ReadProject(proj_files, project_paths[idx + 1])

\* filter_map closure: check_dependency returns a kind, a ReferenceInfo is kept
MainClassifyFound ==
    /\ pc = "classify"
    /\ idx < Len(project_paths)
    /\ NextProject.ok
    /\ check_dependency(NextProject.doc, dll_name) # "None"
    /\ found_projects' = Append(found_projects,
            [project_path |-> project_paths[idx + 1],
             reference_type |-> check_dependency(NextProject.doc, dll_name)])
    /\ idx' = idx + 1
    /\ UNCHANGED <<pc, dll_name, enumVars, scanVars, user_args, proj_files, output>>

\* filter_map closure: check_dependency returns ReferenceType::None
MainClassifyNone ==
    /\ pc = "classify"
    /\ idx < Len(project_paths)
    /\ NextProject.ok
    /\ check_dependency(NextProject.doc, dll_name) = "None"
    /\ idx' = idx + 1
    /\ UNCHANGED <<pc, dll_name, enumVars, scanVars, user_args, proj_files, output, found_projects>>

\* filter_map closure: fs::read_to_string(project_path).expect(..) panics
MainClassifyPanics ==
    /\ pc = "classify"
    /\ idx < Len(project_paths)
    /\ ~NextProject.ok
    /\ pc' = "panicked"
    /\ UNCHANGED <<dll_name, enumVars, scanVars, mainVars>>

\* a summary that counts the enumerated projects instead of the records
MainSummaryCountsProjects ==
    /\ pc = "classify"
    /\ idx = Len(project_paths)
    /\ output' = Append(output,
            IF project_paths = <<>> THEN NoDependenciesLine
            ELSE ReferencesLine(Len(project_paths)))
    /\ pc' = "done"
    /\ UNCHANGED <<dll_name, enumVars, scanVars, user_args, proj_files, found_projects, idx>>

\* the summary line
MainSummary ==
    /\ pc = "classify"
    /\ idx = Len(project_paths)
    /\ output' = Append(output,
            IF found_projects = <<>> THEN NoDependenciesLine
            ELSE ReferencesLine(Len(found_projects)))
    /\ pc' = "done"
    /\ UNCHANGED <<dll_name, enumVars, scanVars, user_args, proj_files, found_projects, idx>>

NextMain ==
    \/ MainArgs
    \/ MainEnumerate
    \/ MainEnumeratePanics
    \/ MainClassifyFound
    \/ MainClassifyNone
    \/ MainClassifyPanics
    \/ MainSummary

SpecMain == InitMain /\ [][NextMain]_vars

----------------------------------------------------------------------------
(* Properties of main (SpecMain) *)

Enumerated == get_project_paths(sln_files, solution_path).panic = "none"

OutputLines == {output[i] : i \in DOMAIN output}

SummaryLines == {l \in OutputLines : l.line \in {"no dependencies", "references"}}

\* classification of the i-th enumerated project, an unreadable one being None
Classification(i) ==
    IF ReadProject(proj_files, project_paths[i]).ok
    THEN check_dependency(ReadProject(proj_files, project_paths[i]).doc, dll_name)
    ELSE "None"

\* one record per project among the first n whose classification is not None,
\* in enumeration order
RecordsOf(n) ==
    LET R == {i \in 1..n : Classification(i) # "None"}
    IN  [k \in 1..Cardinality(R) |->
            [project_path |-> project_paths[KthOf(R, k)],
             reference_type |-> Classification(KthOf(R, k))]]

\* C3: an unreadable project file is skipped: the run does not abort on it,
\* goes on to the later projects and reaches the summary with the unreadable
\* project counted as None
C3_UnreadableProjectSkipped ==
    /\ (pc = "panicked" => ~Enumerated)
    /\ (pc = "done" => found_projects = RecordsOf(Len(project_paths)))

\* C7: after a run over readable projects the result list is the subsequence
\* of the enumerated paths whose classification is not None, in order and
\* with at most one record per project; the summary reports its length, and
\* the "No dependencies" line is printed exactly when the list is empty
C7_Aggregation ==
    /\ pc \in {"classify", "done"} => found_projects = RecordsOf(idx)
    /\ pc = "done" =>
          /\ idx = Len(project_paths)
          /\ Len(found_projects) <= Len(project_paths)
          /\ SummaryLines = {output[Len(output)]}
          /\ NoDependenciesLine \in OutputLines <=> found_projects = <<>>
          /\ found_projects # <<>> =>
                output[Len(output)] = ReferencesLine(Len(found_projects))

\* two projects enumerated, only the second references the target
C7_Witness ==
    /\ pc = "done"
    /\ Len(project_paths) = 2
    /\ Len(found_projects) = 1
    /\ found_projects[1].project_path = project_paths[2]
    /\ found_projects[1].reference_type = "PackageReference"
    /\ output[Len(output)] = ReferencesLine(1)

\* C8: started with other than two arguments the program prints the usage
\* line and does nothing else (no manifest read, no project classified, no
\* summary); started with exactly two it does not print the usage line
C8_UsageError ==
    pc # "start" =>
        /\ Len(user_args) # 2 =>
              /\ UsageLine \in OutputLines
              /\ pc \notin {"classify", "panicked", "done"}
              /\ SummaryLines = {}
        /\ Len(user_args) = 2 => UsageLine \notin OutputLines

====
